---- MODULE Spec2Model ----
(***************************************************************************)
(* A model of tde_fit: the spectrum loader and blackbody fitter            *)
(* (core/lightcurve.py), its physics helpers (core/physics.py) and the     *)
(* multi-epoch pipeline (core/pipeline.py).                                *)
(*                                                                         *)
(* Numbers are fixed point.  Frequencies are in THz (1e12 Hz), wavelengths *)
(* in pm (nm with three decimals), energies in tenths of a keV, times in   *)
(* seconds, temperatures in K, fluxes in the file's own flux unit.         *)
(* Radiances, blackbody scales, luminosities and radii are tracked by sign *)
(* only (-1, 0, 1) or NaN: nothing below depends on their magnitude.       *)
(* File names are sequences of characters, so that the regular expression, *)
(* the suffix test and the slicing of the code are computed on them.       *)
(***************************************************************************)
EXTENDS Integers, Sequences, FiniteSets, TLC

VARIABLES fs, out, lc, ret, pl

vars == <<fs, out, lc, ret, pl>>

\* ------------------------------------------------------------------ bounds

\* The longest spectrum table (rows) the initial file system holds.
MaxRows == 2

\* ------------------------------------------------- constants and conversions

\* utils/constants.py: c = 2.99792458e10 cm/s, here in m/s: c / nu[THz] is a
\* wavelength in pm.
c == 299792458
\* keV_to_Hz = keV_to_erg / hplanck = 2.41802e17 Hz per keV, here THz per keV.
keV_to_Hz == 241802
\* weinconst = 5.88e10 Hz/K, here in units of 1e8 Hz/K.
weinconst == 588
\* sec_to_days = 3600 * 24 seconds per day.
sec_to_days == 86400

\* utils/survey_bands.py, energies in tenths of a keV, wavelengths in pm.
swiftmin_keV == 3
swiftmax_keV == 100
ztfmin_nm == 367600
ztfmax_nm == 901000
swiftmin_Hz == (swiftmin_keV * keV_to_Hz) \div 10
swiftmax_Hz == (swiftmax_keV * keV_to_Hz) \div 10
ztfmin_Hz == c \div ztfmax_nm
ztfmax_Hz == c \div ztfmin_nm

\* The flux floor of get_convolved_spectrum (1e9) and the value standing for
\* numpy's +inf, above every finite flux of the model.
FluxFloor == 1000000000
Inf == 2147483647
\* The value standing for NaN among the sign-tracked quantities.
NaN == 2

Sign(x) == IF x > 0 THEN 1 ELSE IF x < 0 THEN -1 ELSE 0

\* ---------------------------------------------------------- character strings

Digits == {"0", "1", "2", "3", "4", "5", "6", "7", "8", "9"}

\* A variant of the suffix test that lets every name through.
endswith_anything(s, suffix) == Len(s) >= 0

\* str.endswith(suffix)
endswith(s, suffix) ==
    /\ Len(s) >= Len(suffix)
    /\ SubSeq(s, Len(s) - Len(suffix) + 1, Len(s)) = suffix

\* s[:-n]
DropLast(s, n) == IF Len(s) <= n THEN << >> ELSE SubSeq(s, 1, Len(s) - n)

\* re.search(r'_(\d\d\d\d\d)(.*).spec', s): an underscore, five digits, any
\* characters, one more character of any kind (the dot is not escaped), "spec".
re_search_epoch(s) ==
    \E i \in 1..Len(s) :
        /\ s[i] = "_"
        /\ i + 5 <= Len(s)
        /\ \A k \in 1..5 : s[i + k] \in Digits
        /\ \E j \in (i + 6)..Len(s) :
              /\ j + 4 <= Len(s)
              /\ SubSeq(s, j + 1, j + 4) = <<"s", "p", "e", "c">>

\* os.path.join(folder, name)
path_join(folder, name) == folder \o <<"/">> \o name

\* os.path.split(path): (head, tail) around the last slash.
LastSlash(p) ==
    IF \E i \in 1..Len(p) : p[i] = "/"
    THEN CHOOSE i \in 1..Len(p) : p[i] = "/" /\ \A k \in (i + 1)..Len(p) : p[k] # "/"
    ELSE 0

path_split(p) ==
    LET i == LastSlash(p)
    IN  [folder |-> IF i <= 1 THEN << >> ELSE SubSeq(p, 1, i - 1),
         name   |-> IF i = 0 THEN p ELSE SubSeq(p, i + 1, Len(p))]

\* ------------------------------------------------------------------ the files

Folder == <<"d">>
\* "a_00042.spec": the name carries an epoch index.
NameA == <<"a", "_", "0", "0", "0", "4", "2", ".", "s", "p", "e", "c">>
\* "b.spec": no epoch index.
NameB == <<"b", ".", "s", "p", "e", "c">>
\* "n.txt": not a spectrum file.
NameN == <<"n", ".", "t", "x", "t">>
\* "m.spec": never present.
NameM == <<"m", ".", "s", "p", "e", "c">>
\* "plots": the directory read_all_files creates.
NamePlots == <<"p", "l", "o", "t", "s">>
\* "lightcurve_a_00042.out": the companion file of "a_00042.spec".
CompanionA ==
    <<"l", "i", "g", "h", "t", "c", "u", "r", "v", "e", "_",
      "a", "_", "0", "0", "0", "4", "2", ".", "o", "u", "t">>

PathA == path_join(Folder, NameA)
PathB == path_join(Folder, NameB)
PathN == path_join(Folder, NameN)
PathM == path_join(Folder, NameM)
PathPlots == path_join(Folder, NamePlots)

\* The folder PlotLum is given, the one simulation directory in it and the
\* file read there: "s/r/tde-lightcurve.out".
SimFolder == <<"s">>
SimRun == <<"r">>
SimName ==
    <<"t", "d", "e", "-", "l", "i", "g", "h", "t", "c", "u", "r", "v", "e",
      ".", "o", "u", "t">>
SimPath == path_join(path_join(SimFolder, SimRun), SimName)

InputPaths == {PathA, PathB, PathN, PathM, CompanionA, PathPlots, SimPath}
OutputNames == {"lum.dat", "tde-lightcurve.out"}

Absent == [kind |-> "absent", rows |-> << >>]
Garbage == [kind |-> "garbage", rows |-> << >>]
Directory == [kind |-> "dir", rows |-> << >>]
Table(rows) == [kind |-> "table", rows |-> rows]

\* The samples (frequency, flux) a spectrum file of the model is made of: on
\* the two edges of the optical band, just above it, on the lower edge of the
\* X-ray band; flux at the floor, just above it, infinite.
Samples == {<<ztfmin_Hz, FluxFloor + 1>>, <<ztfmax_Hz, FluxFloor + 2>>,
            <<ztfmax_Hz, FluxFloor>>, <<ztfmax_Hz + 1, FluxFloor + 1>>,
            <<ztfmin_Hz + 1, Inf>>, <<swiftmin_Hz, FluxFloor + 3>>}

RECURSIVE SeqsUpTo(_, _)
SeqsUpTo(S, n) ==
    IF n = 0 THEN {<< >>}
    ELSE LET shorter == SeqsUpTo(S, n - 1)
         IN  shorter \cup {Append(s, x) : s \in {t \in shorter : Len(t) = n - 1}, x \in S}

\* Well-formed two-column tables of 1..MaxRows rows.
TwoColumnTables == {Table(r) : r \in SeqsUpTo(Samples, MaxRows) \ {<< >>}}

\* Files that are not a two-column table: empty, one column, three columns.
OtherTables ==
    {Table(<< >>),
     Table(<<<<ztfmin_Hz>>>>),
     Table(<<<<ztfmin_Hz>>, <<ztfmax_Hz>>>>),
     Table(<<<<ztfmin_Hz, FluxFloor + 1, 7>>>>),
     Table(<<<<ztfmin_Hz, FluxFloor + 1, 7>>, <<ztfmax_Hz, FluxFloor + 1, 7>>>>),
     Table(<<<<ztfmin_Hz, FluxFloor + 1>>, <<ztfmax_Hz>>>>)}

DefaultTable ==
    Table(<<<<ztfmin_Hz, FluxFloor + 1>>, <<ztfmax_Hz, FluxFloor + 2>>>>)

\* The first row of the companion file: time [s], Ltot, Reff, Teff.
CompanionRow == Table(<<<<864000, 5, 3, 20000>>>>)

OldOutput == [kind |-> "text", header |-> 1, rows |-> <<<<-1>>, <<-1>>>>]
NoOutput == [kind |-> "absent", header |-> 0, rows |-> << >>]

\* ---------------------------------------------------------------- numpy

FileAt(files, p) == IF p \in DOMAIN files THEN files[p] ELSE Absent

Rectangular(rows) == \A i \in 1..Len(rows) : Len(rows[i]) = Len(rows[1])

RECURSIVE Flatten(_)
Flatten(rows) == IF rows = << >> THEN << >> ELSE Head(rows) \o Flatten(Tail(rows))

\* np.loadtxt(file) with its default ndmin = 0: the table is squeezed, so one
\* row or one column gives a 1-D array, one value a 0-D array; a file with no
\* data gives an empty 1-D array (and a warning).
loadtxt(content) ==
    CASE content.kind = "absent" ->
            [exc |-> "FileNotFoundError", ndim |-> 0, shape |-> << >>, flat |-> << >>]
      [] content.kind = "dir" ->
            [exc |-> "IsADirectoryError", ndim |-> 0, shape |-> << >>, flat |-> << >>]
      [] content.kind = "garbage" ->
            [exc |-> "ValueError", ndim |-> 0, shape |-> << >>, flat |-> << >>]
      [] OTHER ->
            LET rows == content.rows
                R == Len(rows)
                C == IF R = 0 THEN 0 ELSE Len(rows[1])
            IN  IF R = 0
                THEN [exc |-> "none", ndim |-> 1, shape |-> <<0>>, flat |-> << >>]
                ELSE IF ~Rectangular(rows) \/ C = 0
                THEN [exc |-> "ValueError", ndim |-> 0, shape |-> << >>, flat |-> << >>]
                ELSE [exc   |-> "none",
                      ndim  |-> (IF R > 1 THEN 1 ELSE 0) + (IF C > 1 THEN 1 ELSE 0),
                      shape |-> (IF R > 1 THEN <<R>> ELSE << >>)
                                    \o (IF C > 1 THEN <<C>> ELSE << >>),
                      flat  |-> Flatten(rows)]

RECURSIVE Product(_)
Product(s) == IF s = << >> THEN 1 ELSE Head(s) * Product(Tail(s))

\* ndarray.size
size(a) == Product(a.shape)

\* a[:, k] of a 2-D array (k counted from 0).
Column(a, k) == [r \in 1..a.shape[1] |-> a.flat[(r - 1) * a.shape[2] + k + 1]]

\* np.argmax: the first index of the maximum (1-based here).
argmax(s) == CHOOSE i \in 1..Len(s) :
                 /\ \A k \in 1..Len(s) : s[k] <= s[i]
                 /\ \A k \in 1..(i - 1) : s[k] < s[i]

\* Arithmetic of the sign-tracked quantities.
SMul(a, b) == IF a = NaN \/ b = NaN THEN NaN ELSE a * b
SDiv(a, b) ==
    IF a = NaN \/ b = NaN THEN NaN
    ELSE IF b = 0 THEN (IF a = 0 THEN NaN ELSE a)
    ELSE a * b
SSqrt(a) == IF a = NaN \/ a < 0 THEN NaN ELSE a

\* ------------------------------------------------------------ core/physics.py

\* Bnu(nu, temp, bbscale) at one frequency: 0 for temp <= 1, else the Planck
\* radiance (positive for nu > 0, 0/0 at nu = 0) times bbscale.
Bnu(nu, temp, bbscale) ==
    IF temp <= 1 THEN 0
    ELSE SMul(IF nu = 0 THEN NaN ELSE 1, bbscale)

\* Bnu on the whole frequency grid: the scalar 0 for temp <= 1 (not an array),
\* else one value per grid point.
BnuGrid(nu_grid, temp, bbscale) ==
    IF temp <= 1
    THEN [type |-> "float", v |-> <<0>>]
    ELSE [type |-> "ndarray",
          v |-> [i \in 1..Len(nu_grid) |-> Bnu(nu_grid[i], temp, bbscale)]]

\* Wien_T_from_nu(nu) = nu / weinconst, in K.
Wien_T_from_nu(nu) == (nu * 10000) \div weinconst

\* get_Lbol(Tc, bb_scale) = 4 * steboltz * Tc**4 * bb_scale
get_Lbol(Tc, bb_scale) == SMul(Sign(Tc) * Sign(Tc), bb_scale)

\* get_lum_by_rad(temp) = 4 * pi * steboltz * temp**4
get_lum_by_rad(temp) == Sign(temp) * Sign(temp)

\* --------------------------------------------------- LightCurve: construction

TguessInit == 10000
TguessxInit == 100000

NoLoader ==
    [exc |-> "unconstructed", filename |-> << >>, folder |-> << >>, name |-> << >>,
     attrs |-> {}, nu_grid |-> << >>, spec |-> << >>, lam |-> << >>,
     Tguess |-> 0, Tguessx |-> 0]

\* A variant of the shape test that looks at the number of dimensions only.
bad_shape_ndim_only(data) == data.ndim # 2

\* The shape test of __init__: `self.data.ndim != 2 or self.data.shape[1] != 2`.
bad_shape(data) == data.ndim # 2 \/ data.shape[2] # 2

\* LightCurve.__init__ once load_data() has returned or raised: `parts` is
\* os.path.split(filepath), `data` what np.loadtxt gave.
LightCurve_init(filepath, parts, data) ==
    LET o0 == [NoLoader EXCEPT !.filename = filepath, !.folder = parts.folder,
                               !.name = parts.name,
                               !.attrs = {"folder", "name", "filename"}]
        o1 == [o0 EXCEPT !.attrs = @ \cup {"data"}]
    IN  IF data.exc = "FileNotFoundError"
        THEN [o0 EXCEPT !.exc = "FileNotFoundError"]
        ELSE IF data.exc # "none"
        THEN [o0 EXCEPT !.exc = "RuntimeError"]
        ELSE IF bad_shape(data)
        THEN [o1 EXCEPT !.exc = "ValueError"]
        ELSE IF size(data) = 0
        THEN [o1 EXCEPT !.exc = "ValueError"]
        ELSE [o1 EXCEPT
                !.exc = "none",
                !.nu_grid = Column(data, 0),
                !.spec = [i \in 1..data.shape[1] |->
                             IF Column(data, 1)[i] = Inf THEN 0 ELSE Column(data, 1)[i]],
                !.lam = [i \in 1..data.shape[1] |->
                            IF Column(data, 0)[i] = 0 THEN Inf
                            ELSE c \div Column(data, 0)[i]],
                !.Tguess = TguessInit,
                !.Tguessx = TguessxInit,
                !.attrs = @ \cup {"nu_grid", "spec", "lam", "Tguess", "Tguessx"}]

\* A variant of the constructor whose loader starts from the temperature of
\* an earlier optical fit.
LightCurve_warm(files, filepath) ==
    [LightCurve_init(filepath, path_split(filepath), loadtxt(FileAt(files, filepath)))
        EXCEPT !.Tguess = 20000]

\* LightCurve(filepath) on the file system `files`: the object, with the
\* exception that left the constructor ("none": it returned) and the
\* attributes assigned before it did.
LightCurve(files, filepath) ==
    LightCurve_init(filepath, path_split(filepath), loadtxt(FileAt(files, filepath)))

\* ------------------------------------------------------- LightCurve: the fits

\* get_color_temperature() once the peak is found: imax is np.argmax(spec).
color_temperature_at(o, imax) ==
    [Tc |-> Wien_T_from_nu(o.nu_grid[imax]),
     bb_scale |-> IF Wien_T_from_nu(o.nu_grid[imax]) > 1
                  THEN SDiv(Sign(o.spec[imax]),
                            Bnu(o.nu_grid[imax], Wien_T_from_nu(o.nu_grid[imax]), 1))
                  ELSE 0]

\* get_color_temperature(): (Tc, bb_scale) from the peak of the spectrum.
get_color_temperature(o) == color_temperature_at(o, argmax(o.spec))

\* fit_Tc() once get_color_temperature() has returned ct.
fit_Tc_from(o, ct) ==
    [exc |-> "none", T |-> ct.Tc, scale |-> ct.bb_scale,
     bbspec |-> BnuGrid(o.nu_grid, ct.Tc, ct.bb_scale)]

\* fit_Tc(): the colour temperature, its scale and the model spectrum.
fit_Tc(o) == fit_Tc_from(o, get_color_temperature(o))

\* A variant of the band test that lets a sample at the flux floor through.
in_band_floor_included(o, i, nu_min, nu_max) ==
    o.nu_grid[i] >= nu_min /\ o.nu_grid[i] <= nu_max /\ o.spec[i] >= FluxFloor

\* The test of get_convolved_spectrum on sample i: inside the band, both ends
\* included, and strictly above the flux floor.
in_band(o, i, nu_min, nu_max) ==
    o.nu_grid[i] >= nu_min /\ o.nu_grid[i] <= nu_max /\ o.spec[i] > FluxFloor

\* The loop of get_convolved_spectrum over the samples i..Len(spec), appending
\* to the three lists.
RECURSIVE ConvolveFrom(_, _, _, _, _)
ConvolveFrom(o, nu_min, nu_max, i, acc) ==
    IF i > Len(o.spec) THEN acc
    ELSE ConvolveFrom(o, nu_min, nu_max, i + 1,
            IF in_band(o, i, nu_min, nu_max)
            THEN [acc EXCEPT !.myspec = Append(@, o.spec[i]),
                             !.mynu = Append(@, o.nu_grid[i]),
                             !.mylam = Append(@, c \div o.nu_grid[i])]
            ELSE acc)

\* get_convolved_spectrum(nu_min, nu_max): three Python lists.
get_convolved_spectrum(o, nu_min, nu_max) ==
    ConvolveFrom(o, nu_min, nu_max, 1,
                 [type |-> "list", mylam |-> << >>, mynu |-> << >>, myspec |-> << >>])

\* Python's `<` by operand types: a list against a float is not supported and
\* raises TypeError; an ndarray against a float compares element by element.
py_lt(lhs_type, rhs_type) ==
    IF lhs_type = "list" /\ rhs_type = "float" THEN "TypeError" ELSE "none"

\* What scipy's curve_fit may give back: a failure to converge, or any pair
\* (temperature, scale), the optimiser being unconstrained.
CurveFitOutcomes ==
    {[exc |-> "RuntimeError", T |-> 0, scale |-> 0],
     [exc |-> "none", T |-> 20000, scale |-> 1],
     [exc |-> "none", T |-> -300, scale |-> 1]}

NoFit(exc) ==
    [exc |-> exc, T |-> 0, scale |-> 0, bbspec |-> [type |-> "none", v |-> << >>],
     optimised |-> FALSE, p0 |-> "none"]

\* fit_band from its line 113 on: conv is what get_convolved_spectrum gave, ct
\* what get_color_temperature gave, `opt` what curve_fit gives if it is called.
fit_band_from(o, x, opt, conv, ct) ==
    IF py_lt(conv.type, "float") # "none" THEN NoFit(py_lt(conv.type, "float"))
    ELSE IF (\A i \in 1..Len(conv.myspec) : conv.myspec[i] <= 0)
                \/ Len(conv.myspec) <= 2
    THEN [NoFit("none") EXCEPT !.bbspec = BnuGrid(o.nu_grid, 0, 0)]
    ELSE IF opt.exc # "none"
    THEN [NoFit(opt.exc) EXCEPT !.optimised = TRUE,
                                !.p0 = IF x THEN "Tguessx" ELSE "Tguess"]
    ELSE [exc |-> "none", T |-> opt.T, scale |-> opt.scale,
          bbspec |-> BnuGrid(o.nu_grid, opt.T, opt.scale),
          optimised |-> TRUE, p0 |-> IF x THEN "Tguessx" ELSE "Tguess"]

\* fit_band(minHz, maxHz, x)
fit_band(o, minHz, maxHz, x, opt) ==
    fit_band_from(o, x, opt, get_convolved_spectrum(o, minHz, maxHz),
                  get_color_temperature(o))

\* ------------------------------------------------- LightCurve: epoch metadata

\* "lightcurve_"
LightcurvePrefix == <<"l", "i", "g", "h", "t", "c", "u", "r", "v", "e", "_">>

NoTime(exc) == [exc |-> exc, time |-> 0, Ltot |-> 0, Reff |-> 0, Teff |-> 0]

\* row[k] of what loadtxt returned for the companion file (k counted from 0).
RowItemOk(row, k) == row.ndim >= 1 /\ k < row.shape[1]
RowItem(row, k) ==
    IF row.ndim = 1 THEN row.flat[k + 1]
    ELSE SubSeq(row.flat, k * row.shape[2] + 1, (k + 1) * row.shape[2])

\* get_time_from_filename() from its line 139 on, the name having matched:
\* `present` is os.path.exists(file), `row` what np.loadtxt(file) gave.
time_from_row(present, row) ==
    IF ~present
    THEN NoTime("FileNotFoundError")
    \* the bare except prints and goes on: row is not bound
    ELSE IF row.exc # "none"
    THEN NoTime("UnboundLocalError")
    ELSE IF ~RowItemOk(row, 3)
    THEN NoTime("IndexError")
    ELSE [exc |-> "none",
          time |-> IF row.ndim = 1 THEN RowItem(row, 0) \div sec_to_days
                   ELSE [i \in 1..row.shape[2] |-> RowItem(row, 0)[i] \div sec_to_days],
          Ltot |-> RowItem(row, 1),
          Reff |-> RowItem(row, 2),
          Teff |-> RowItem(row, 3)]

\* 'lightcurve_' + self.name[:-5] + '.out'
companion_file(o) == LightcurvePrefix \o DropLast(o.name, 5) \o <<".", "o", "u", "t">>

\* get_time_from_filename() on the file system `files`.
get_time_from_filename(o, files) ==
    IF re_search_epoch(o.filename)
    THEN time_from_row(FileAt(files, companion_file(o)).kind # "absent",
                       loadtxt(FileAt(files, companion_file(o))))
    \* no match: the message names `file`, which is not bound on this branch
    ELSE NoTime("UnboundLocalError")

\* -------------------------------------------- LightCurve: the per-epoch results

NoFits(exc, o) ==
    [exc |-> exc, o |-> o, Tc |-> 0, Tbb |-> 0, Tx |-> 0, l_bb |-> 0, l_bb2 |-> 0,
     l_x |-> 0, rbb |-> 0, rbb2 |-> 0, rbbtot |-> 0, rx |-> 0, lbb_to_lx |-> 0]

\* _compute_fits from its line 190 on: o2 is the loader with both seeds
\* assigned, tc, bb and bx the three fits.
derived_quantities(o2, Ltot, tc, bb, bx) ==
    [exc |-> "none", o |-> o2,
     Tc |-> tc.T, Tbb |-> bb.T, Tx |-> bx.T,
     l_bb |-> get_Lbol(tc.T, tc.scale),
     l_bb2 |-> get_Lbol(bb.T, bb.scale),
     l_x |-> get_Lbol(bx.T, bx.scale),
     rbb |-> IF bb.T > 0
             THEN SSqrt(SDiv(get_Lbol(tc.T, tc.scale), get_lum_by_rad(tc.T))) ELSE 0,
     rbb2 |-> IF bb.T > 0
              THEN SSqrt(SDiv(get_Lbol(bb.T, bb.scale), get_lum_by_rad(bb.T))) ELSE 0,
     rbbtot |-> IF bb.T > 0 THEN SSqrt(SDiv(Sign(Ltot), get_lum_by_rad(bb.T))) ELSE 0,
     rx |-> IF bx.T > 0
            THEN SSqrt(SDiv(get_Lbol(bx.T, bx.scale), get_lum_by_rad(bx.T))) ELSE 0,
     lbb_to_lx |-> IF get_Lbol(bx.T, bx.scale) # NaN /\ get_Lbol(bx.T, bx.scale) > 0
                   THEN SDiv(get_Lbol(tc.T, tc.scale), get_Lbol(bx.T, bx.scale))
                   ELSE 0]

\* _compute_fits from its line 186 on: o1 is the loader with Tguess assigned,
\* bx the X-ray fit made on it.
compute_fits_xray(o1, Ltot, tc, bb, bx) ==
    IF bx.exc # "none" THEN NoFits(bx.exc, o1)
    ELSE derived_quantities([o1 EXCEPT !.Tguessx = bx.T], Ltot, tc, bb, bx)

\* _compute_fits from its line 183 on: tc is the whole-spectrum fit, bb the
\* optical fit.
compute_fits_optical(o, Ltot, tc, bb, optX) ==
    IF bb.exc # "none" THEN NoFits(bb.exc, o)
    ELSE compute_fits_xray([o EXCEPT !.Tguess = bb.T], Ltot, tc, bb,
                           fit_band([o EXCEPT !.Tguess = bb.T],
                                    swiftmin_Hz, swiftmax_Hz, TRUE, optX))

\* _compute_fits(Ltot): the eleven results and the loader with its seeds as the
\* call leaves them; optO and optX are what curve_fit gives for the two bands.
compute_fits(o, Ltot, optO, optX) ==
    compute_fits_optical(o, Ltot, fit_Tc(o),
                         fit_band(o, ztfmin_Hz, ztfmax_Hz, FALSE, optO), optX)

\* ------------------------------------------------ LightCurve: the output files

\* _delete_existing_files(filenames)
delete_existing_files(outs, filenames) ==
    [f \in DOMAIN outs |->
        IF f \in filenames /\ outs[f].kind = "text" THEN NoOutput ELSE outs[f]]

\* A format specification of an f-string applied to a float: ".5e" formats,
\* ".5fe" is not a format specification and raises ValueError.
py_format(fmt) == IF fmt = ".5e" THEN "none" ELSE "ValueError"

\* open(filename, 'w'), the header line, then the data row if every field formats.
WriteFile(outs, filename, fmts, row) ==
    LET bad == {i \in 1..Len(fmts) : py_format(fmts[i]) # "none"}
    IN  [exc |-> IF bad = {} THEN "none" ELSE "ValueError",
         out |-> [outs EXCEPT ![filename] =
                    [kind |-> "text", header |-> 1,
                     rows |-> IF bad = {} THEN <<row>> ELSE << >>]]]

\* _write_lum_dat(filename, time, l_bb, rbb, Tbb, Ltot, l_x, rx, Tx)
write_lum_dat(outs, filename, t, f) ==
    WriteFile(outs, filename, [i \in 1..8 |-> ".5e"],
              <<t.time, f.l_bb, f.rbb, f.Tbb, t.Ltot, f.l_x, f.rx, f.Tx>>)

\* _write_tde_lightcurve(filename, time, Ltot, Teff, Reff, ...): the time is
\* formatted with ".5fe", Tx is converted to keV (kb / keV_to_erg, here in
\* millionths of a keV).
write_tde_lightcurve(outs, filename, t, f) ==
    WriteFile(outs, filename, [i \in 1..14 |-> IF i = 1 THEN ".5fe" ELSE ".5e"],
              <<t.time, t.Ltot, t.Teff, t.Reff, f.l_bb, f.Tc, f.rbb, f.l_bb2, f.Tbb,
                f.rbb2, f.rbbtot, f.l_x, (f.Tx * 86) \div 1000, f.lbb_to_lx>>)

\* write_data from its line 166 on: w1 is what writing lum.dat gave.
write_data_tde(t, f, w1) ==
    IF w1.exc # "none" THEN [exc |-> w1.exc, o |-> f.o, out |-> w1.out]
    ELSE [exc |-> write_tde_lightcurve(w1.out, "tde-lightcurve.out", t, f).exc,
          o   |-> f.o,
          out |-> write_tde_lightcurve(w1.out, "tde-lightcurve.out", t, f).out]

\* write_data from its line 165 on: f is what _compute_fits gave.
write_data_lum(out0, t, f) ==
    IF f.exc # "none" THEN [exc |-> f.exc, o |-> f.o, out |-> out0]
    ELSE write_data_tde(t, f, write_lum_dat(out0, "lum.dat", t, f))

\* write_data from its line 163 on: out0 are the output files after
\* _delete_existing_files, t is what get_time_from_filename gave.
write_data_fits(o, out0, t, optO, optX) ==
    IF t.exc # "none" THEN [exc |-> t.exc, o |-> o, out |-> out0]
    ELSE write_data_lum(out0, t, compute_fits(o, t.Ltot, optO, optX))

\* write_data(): the exception that left it ("none": it returned), the output
\* files and the loader as it leaves them.
write_data(o, files, outs, optO, optX) ==
    write_data_fits(o, delete_existing_files(outs, {"lum.dat", "tde-lightcurve.out"}),
                    get_time_from_filename(o, files), optO, optX)

\* ------------------------------------------------------------ core/pipeline.py

\* The attributes class LightCurve has: its own methods and those of its base
\* class Lightcurveplot.
LightcurveplotAttrs ==
    {"plot_spectrum", "plot_spec", "plot_filter", "plot_lightcurve", "plot_lum_data"}
LightCurveAttrs ==
    {"__init__", "load_data", "get_color_temperature", "fit_Tc",
     "get_convolved_spectrum", "fit_band", "get_time_from_filename", "write_data",
     "_delete_existing_files", "_compute_fits", "_write_lum_dat",
     "_write_tde_lightcurve"} \cup LightcurveplotAttrs

\* Looking an attribute up on LightCurve (or on an instance of it) and calling
\* it: AttributeError if the class has none of that name, else `result`.
CallLightCurve(name, result) ==
    IF name \in LightCurveAttrs THEN result
    ELSE [exc |-> "AttributeError", val |-> << >>]

AccNames ==
    <<"time", "Ltot", "Reff", "Teff", "Tc", "Tbb", "Tx", "l_bb", "l_bb2", "l_x",
      "rbb", "rbb2", "rbbtot", "rx", "lbb_to_lx">>
AccFields == {AccNames[i] : i \in 1..Len(AccNames)}

\* PipeLine.__init__(foldername)
PipeLine ==
    [pc |-> "new", exc |-> "none", todo |-> << >>,
     acc |-> [f \in AccFields |-> << >>],
     plot_folder |-> FALSE, processed |-> << >>, succeeded |-> << >>,
     failed |-> << >>, saved |-> {}, agg_writes |-> 0, agg_plots |-> 0,
     seeds |-> << >>]

\* _fill_arrays(time, Ltot, ..., lbb_to_lx): one append to each sequence.
fill_arrays(acc, data) ==
    [f \in AccFields |->
        Append(acc[f], data[CHOOSE i \in 1..Len(AccNames) : AccNames[i] = f])]

\* What a per-epoch call would hand to _fill_arrays: fifteen values.
EpochData == {[i \in 1..15 |-> i]}

\* The names os.listdir(foldername) returns.
listdir(files, folder) ==
    {path_split(p).name : p \in {q \in DOMAIN files :
        path_split(q).folder = folder /\ files[q].kind # "absent"}}

Orders(S) == {s \in [1..Cardinality(S) -> S] : \A x \in S : \E i \in DOMAIN s : s[i] = x}

\* The try block of read_all_files for one spectrum file: o is what
\* LightCurve(filepath) gave, r what lc.write_all_data() gave; `seeds` keeps
\* the seeds the loader holds when the per-epoch call is made on it.
process_file(p, filename, o, r) ==
    IF o.exc # "none"
    THEN [p EXCEPT !.processed = Append(@, filename),
                   !.failed = Append(@, <<filename, o.exc>>)]
    ELSE IF r.exc # "none"
    THEN [p EXCEPT !.processed = Append(@, filename),
                   !.seeds = Append(@, <<filename, o.Tguess, o.Tguessx>>),
                   !.failed = Append(@, <<filename, r.exc>>)]
    ELSE [p EXCEPT !.processed = Append(@, filename),
                   !.seeds = Append(@, <<filename, o.Tguess, o.Tguessx>>),
                   !.acc = fill_arrays(@, r.val),
                   !.succeeded = Append(@, filename),
                   !.saved = @ \cup {filename}]

\* The body of the loop of read_all_files for one directory entry.
read_one_file(p, files, filename, data) ==
    IF ~endswith(filename, <<".", "s", "p", "e", "c">>) THEN p
    ELSE process_file(p, filename, LightCurve(files, path_join(Folder, filename)),
                      CallLightCurve("write_all_data", [exc |-> "none", val |-> data]))

\* ------------------------------------------------------------ core/plot_lum.py

\* The names utils/constants.py binds.
ConstantsNames ==
    {"keV_to_erg", "kb", "hplanck", "steboltz", "weinconst", "c", "cm_to_nm", "au",
     "sec_to_days", "keV_to_Hz", "L_sun"}

\* `from module import names`: ImportError unless the module binds them all.
import_from(module_names, names) ==
    IF names \subseteq module_names THEN "none" ELSE "ImportError"

\* The import at the top of plot_lum.py: from ..utils.constants import
\* cm_to_au, L_sun.
plot_lum_import == import_from(ConstantsNames, {"cm_to_au", "L_sun"})

\* The longest simulation light curve (rows) the initial file system holds.
MaxSimRows == 2

\* self.columns of PlotLum.__init__
columns == [lum |-> 3, rbb |-> 4, temp |-> 2, lum_obs |-> 2, rbb_obs |-> 4,
            temp_obs |-> 6, xray |-> 11]

\* The limits of plot_lum.py: the latest peak time kept and the shift that
\* replaces a later one (days); the time floor (days) and the bad-fraction
\* threshold (hundredths) of the masking scan; the column of the bad fraction.
PeakTimeCap == 50
PeakTimeFallback == 30
TimeFloor == 10
BadFracLimit == 2
BadFracColumn == 14

\* A row of a simulation light curve in the layout time, Ltot, Teff, Reff,
\* l_bb, ..., Lbb/Lx, badfrac: time in days, bad fraction in hundredths.
SimRow(t, ltot, reff, bf) == <<t, ltot, 2, reff, 4, 5, 6, 7, 8, 9, 10, 11, 12, 13, bf>>

\* The rows the files of the model are made of: Ltot peaks in the second, Reff
\* in the last, which is later than the cap, and else in the first; the second
\* alone has a small bad fraction.
SimRows == {SimRow(5, 3, 8, 5), SimRow(20, 9, 7, 1), SimRow(60, 1, 9, 5)}

\* A text file of `header` comment lines and then the rows.
SimFile(header, rows) == [kind |-> "table", header |-> header, rows |-> rows]

\* The simulation files: 0..MaxSimRows rows, with the bad-fraction column or
\* without it, under one header line or two.
SimFiles ==
    {SimFile(h, [i \in 1..Len(r) |-> SubSeq(r[i], 1, n)]) :
        h \in {1, 2}, n \in {14, 15}, r \in SeqsUpTo(SimRows, MaxSimRows)}

\* np.loadtxt(file, skiprows=n): the first n lines are dropped, comment lines
\* among the rest are ignored.
loadtxt_skiprows(content, n) ==
    IF content.kind # "table" THEN loadtxt(content)
    ELSE loadtxt(Table(SubSeq(content.rows,
                              1 + (IF n > content.header THEN n - content.header ELSE 0),
                              Len(content.rows))))

\* PlotLum.__init__(foldername)
PlotLum == [exc |-> "none", t_shift |-> 0, array |-> << >>, array_shifted |-> << >>]

\* a[:, k] is possible: a is 2-D and has a column k (counted from 0).
HasColumn(a, k) == a.ndim = 2 /\ k < a.shape[2]

\* _get_t_at_max_lum(): self.t_shift, or the IndexError of array[:, 3].
get_t_at_max_lum(array) ==
    IF ~HasColumn(array, columns.lum) THEN [exc |-> "IndexError", t_shift |-> 0]
    ELSE [exc |-> "none",
          t_shift |-> IF Column(array, 0)[argmax(Column(array, columns.lum))] > PeakTimeCap
                      THEN PeakTimeFallback
                      ELSE Column(array, 0)[argmax(Column(array, columns.lum))]]

\* arr = self.array.copy(); arr[:, 0] -= t_shift; arr[:, 4] *= cm_to_au (a
\* positive factor: the radius column is kept up to its unit).
shifted_copy(array, t_shift) ==
    [array EXCEPT !.flat = [j \in 1..Len(array.flat) |->
                               IF (j - 1) % array.shape[2] = 0
                               THEN array.flat[j] - t_shift
                               ELSE array.flat[j]]]

\* _shift_to_t_since_max() once _get_t_at_max_lum() has returned or raised.
shift_to_t_since_max(p, array, m) ==
    IF m.exc # "none" THEN [p EXCEPT !.exc = m.exc, !.array = array]
    ELSE [p EXCEPT !.array = array, !.t_shift = m.t_shift,
                   !.array_shifted = shifted_copy(array, m.t_shift)]

\* load_sim_lightcurve(filepath) once np.loadtxt has returned or raised.
load_sim_lightcurve_from(p, array) ==
    IF array.exc # "none" THEN [p EXCEPT !.exc = array.exc]
    ELSE shift_to_t_since_max(p, array, get_t_at_max_lum(array))

\* load_sim_lightcurve(filepath) on the file system `files`.
load_sim_lightcurve(p, files, filepath) ==
    load_sim_lightcurve_from(p, loadtxt_skiprows(FileAt(files, filepath), 2))

\* What a client gets that imports tde_fit.core.plot_lum to use PlotLum: the
\* ImportError of the module, or what the use of the class gives.
with_plot_lum(imported, result) ==
    IF imported # "none" THEN [PlotLum EXCEPT !.exc = imported] ELSE result

\* The scan of _plot_my_curves over the bad fractions: the index (counted
\* from 0) of the first row past the time floor whose bad fraction is under
\* the threshold; the loop variable is left on the last row if there is none.
first_ok(time, badfrac) ==
    IF \E i \in 1..Len(time) : time[i] > TimeFloor /\ badfrac[i] < BadFracLimit
    THEN (CHOOSE i \in 1..Len(time) :
             /\ time[i] > TimeFloor /\ badfrac[i] < BadFracLimit
             /\ \A k \in 1..(i - 1) : ~(time[k] > TimeFloor /\ badfrac[k] < BadFracLimit))
         - 1
    ELSE Len(time) - 1

\* iok of _plot_my_curves for the shifted array a.
iok_of(a) ==
    IF a.shape[2] > BadFracColumn
    THEN first_ok(Column(a, 0), Column(a, BadFracColumn))
    ELSE a.shape[1] - 1

\* The plt.plot calls of _plot_my_curves on n rows: the rows (counted from 1)
\* each call draws and its alpha, in tenths.
plot_calls(n, iok) ==
    IF iok > 0
    THEN <<[rows |-> [k \in 1..(n - iok) |-> iok + k], alpha |-> 10],
           [rows |-> [k \in 1..iok |-> k], alpha |-> 3]>>
    ELSE <<[rows |-> [k \in 1..n |-> k], alpha |-> 10]>>

NoCurves(exc) == [exc |-> exc, t_shift |-> 0, draws |-> << >>]

\* The body of the loop of _plot_my_curves for one folder, once
\* load_sim_lightcurve has returned or raised: y is bound for the four
\* columns the method knows only.
plot_one_curve(p, col) ==
    IF p.exc # "none" THEN NoCurves(p.exc)
    ELSE IF col \notin {columns.rbb, columns.temp, columns.lum, columns.xray}
    THEN NoCurves("UnboundLocalError")
    ELSE [exc |-> "none", t_shift |-> p.t_shift,
          draws |-> plot_calls(p.array_shifted.shape[1], iok_of(p.array_shifted))]

\* _plot_my_curves(col) on the file system `files`: one curve for the one
\* simulation directory, none if it is not there.
plot_my_curves(files, col) ==
    IF FileAt(files, SimPath).kind = "absent" THEN NoCurves("none")
    ELSE plot_one_curve(load_sim_lightcurve(PlotLum, files, SimPath), col)

\* ------------------------------------------------------------------ the state

\* fs: the input files by path; out: the two output files of the working
\* directory; lc: the loader the last constructor call built (or left half
\* built); ret: the last call on the loader and what it gave; pl: the pipeline.

SpectrumFiles == TwoColumnTables \cup OtherTables \cup {Garbage, Absent}

Files(a, b, comp) ==
    [p \in InputPaths |->
        IF p = PathA THEN a
        ELSE IF p = PathB THEN b
        ELSE IF p = PathN THEN DefaultTable
        ELSE IF p = CompanionA THEN comp
        ELSE Absent]

NoCall == [op |-> "none", exc |-> "none", arg |-> << >>, val |-> << >>]

Init ==
    /\ \/ /\ \E a \in SpectrumFiles : fs = Files(a, DefaultTable, CompanionRow)
          /\ out = [f \in OutputNames |-> NoOutput]
       \/ /\ \E b \in {DefaultTable, Garbage},
                comp \in {Absent, Garbage, CompanionRow, Table(<<<<864000, 5, 3>>>>)} :
                fs = Files(DefaultTable, b, comp)
          /\ out \in [OutputNames -> {NoOutput, OldOutput}]
       \/ /\ \E sim \in SimFiles :
                fs = [Files(Absent, Absent, Absent) EXCEPT ![SimPath] = sim]
          /\ out = [f \in OutputNames |-> NoOutput]
    /\ lc = NoLoader
    /\ ret = NoCall
    /\ pl = PipeLine

Bands == {<<ztfmin_Hz, ztfmax_Hz>>, <<swiftmin_Hz, swiftmax_Hz>>}

\* The loader is used directly while the pipeline has not been started.
Direct == pl.pc = "new"
Loaded == Direct /\ lc.exc = "none"

\* lc = LightCurve(filepath)
Construct(filepath) ==
    /\ Direct
    /\ \E o \in {LightCurve(fs, filepath)} :
          /\ lc' = o
          /\ ret' = [op |-> "__init__", exc |-> o.exc, arg |-> filepath, val |-> << >>]
    /\ UNCHANGED <<fs, out, pl>>

\* lc.get_convolved_spectrum(nu_min, nu_max)
GetConvolvedSpectrum(band) ==
    /\ Loaded
    /\ ret' = [op |-> "get_convolved_spectrum", exc |-> "none", arg |-> band,
               val |-> get_convolved_spectrum(lc, band[1], band[2])]
    /\ UNCHANGED <<fs, out, lc, pl>>

\* lc.fit_Tc()
FitTc ==
    /\ Loaded
    /\ ret' = [op |-> "fit_Tc", exc |-> "none", arg |-> << >>, val |-> fit_Tc(lc)]
    /\ UNCHANGED <<fs, out, lc, pl>>

\* lc.fit_band(minHz, maxHz, x)
FitBand(band, x, opt) ==
    /\ Loaded
    /\ \E r \in {fit_band(lc, band[1], band[2], x, opt)} :
           ret' = [op |-> "fit_band", exc |-> r.exc, arg |-> <<band, x>>, val |-> r]
    /\ UNCHANGED <<fs, out, lc, pl>>

\* lc.get_time_from_filename()
GetTimeFromFilename ==
    /\ Loaded
    /\ \E r \in {get_time_from_filename(lc, fs)} :
           ret' = [op |-> "get_time_from_filename", exc |-> r.exc, arg |-> << >>,
                   val |-> r]
    /\ UNCHANGED <<fs, out, lc, pl>>

\* lc._compute_fits(Ltot)
ComputeFits(Ltot, optO, optX) ==
    /\ Loaded
    /\ \E r \in {compute_fits(lc, Ltot, optO, optX)} :
           /\ lc' = r.o
           /\ ret' = [op |-> "_compute_fits", exc |-> r.exc, arg |-> Ltot,
                      val |-> [r EXCEPT !.o = << >>]]
    /\ UNCHANGED <<fs, out, pl>>

\* lc.write_data()
WriteData(optO, optX) ==
    /\ Loaded
    /\ \E r \in {write_data(lc, fs, out, optO, optX)} :
           /\ lc' = r.o
           /\ out' = r.out
           /\ ret' = [op |-> "write_data", exc |-> r.exc, arg |-> out, val |-> << >>]
    /\ UNCHANGED <<fs, pl>>

\* The comparison plotter is a program of its own: it is run on the file
\* system as found, no loader built and no batch started.
Plotting == Direct /\ lc = NoLoader

\* PlotLum(foldername).load_sim_lightcurve(filepath), by a client that imports
\* the module first.
LoadSimLightcurve ==
    /\ Plotting
    /\ \E r \in {with_plot_lum(plot_lum_import,
                                load_sim_lightcurve(PlotLum, fs, SimPath))} :
           ret' = [op |-> "load_sim_lightcurve", exc |-> r.exc, arg |-> SimPath,
                   val |-> r]
    /\ UNCHANGED <<fs, out, lc, pl>>

\* PlotLum(foldername)._plot_my_curves(col), by a client that imports the
\* module first.
PlotMyCurves(col) ==
    /\ Plotting
    /\ \E r \in {plot_my_curves(fs, col)} :
           ret' = [op |-> "_plot_my_curves",
                   exc |-> IF plot_lum_import # "none" THEN plot_lum_import ELSE r.exc,
                   arg |-> col,
                   val |-> IF plot_lum_import # "none" THEN NoCurves(plot_lum_import)
                           ELSE r]
    /\ UNCHANGED <<fs, out, lc, pl>>

\* read_all_files(), up to the loop: the plots folder is created and the
\* directory is listed, in an order of the file system's choosing.
ReadAllFilesBegin(order) ==
    /\ pl.pc = "new"
    /\ lc = NoLoader
    /\ ret = NoCall
    /\ LET files == [fs EXCEPT ![PathPlots] = Directory]
       IN  /\ order \in Orders(listdir(files, Folder))
           /\ fs' = files
           /\ pl' = [pl EXCEPT !.pc = "loop", !.plot_folder = TRUE, !.todo = order]
    /\ UNCHANGED <<out, lc, ret>>

\* One turn of the loop of read_all_files.
ReadAllFilesStep(data) ==
    /\ pl.pc = "loop"
    /\ pl.todo # << >>
    /\ pl' = [read_one_file(pl, fs, Head(pl.todo), data) EXCEPT !.todo = Tail(pl.todo)]
    /\ UNCHANGED <<fs, out, lc, ret>>

\* read_all_files() after the loop: LightCurve.write_multiple_data(...).
ReadAllFilesEnd ==
    /\ pl.pc = "loop"
    /\ pl.todo = << >>
    /\ \E r \in {CallLightCurve("write_multiple_data", [exc |-> "none", val |-> << >>])} :
           pl' = IF r.exc # "none"
                 THEN [pl EXCEPT !.pc = "raised", !.exc = r.exc]
                 ELSE [pl EXCEPT !.pc = "returned", !.agg_writes = @ + 1]
    /\ UNCHANGED <<fs, out, lc, ret>>

\* The most aggregate plots a run of the model asks for.
MaxAggPlots == 1

\* plot_lum_data_all(), once read_all_files has ended.
PlotLumDataAll ==
    /\ pl.pc \in {"returned", "raised"}
    /\ pl.agg_plots < MaxAggPlots
    /\ \E r \in {CallLightCurve("plot_lum_data", [exc |-> "none", val |-> << >>])} :
           pl' = IF r.exc # "none" \/ ~pl.plot_folder
                 THEN [pl EXCEPT !.exc = "AttributeError"]
                 ELSE [pl EXCEPT !.agg_plots = @ + 1]
    /\ UNCHANGED <<fs, out, lc, ret>>

Next ==
    \/ \E p \in {PathA, PathB, PathN, PathM} : Construct(p)
    \/ \E b \in Bands : GetConvolvedSpectrum(b)
    \/ FitTc
    \/ \E b \in Bands, x \in BOOLEAN, opt \in CurveFitOutcomes : FitBand(b, x, opt)
    \/ GetTimeFromFilename
    \/ \E Ltot \in {0, 5}, optO \in CurveFitOutcomes, optX \in CurveFitOutcomes :
          ComputeFits(Ltot, optO, optX)
    \/ \E optO \in CurveFitOutcomes, optX \in CurveFitOutcomes : WriteData(optO, optX)
    \/ LoadSimLightcurve
    \/ \E col \in {columns.lum, columns.rbb, columns.temp, columns.xray} :
          PlotMyCurves(col)
    \/ \E order \in Orders(listdir([fs EXCEPT ![PathPlots] = Directory], Folder)) :
          ReadAllFilesBegin(order)
    \/ \E data \in EpochData : ReadAllFilesStep(data)
    \/ ReadAllFilesEnd
    \/ PlotLumDataAll

Spec == Init /\ [][Next]_vars

\* ------------------------------------------------------------------ properties

\* read_all_files has ended, by returning or by raising.
BatchEnded == pl.pc \in {"returned", "raised"}

\* C1: with one valid spectrum file (b.spec, a two-column table) and one
\* corrupt one (a_00042.spec, not numbers) in the directory, read_all_files
\* returns without raising and each of the fifteen accumulators holds exactly
\* one entry.
C1_CorruptFileIsolated ==
    (BatchEnded /\ fs[PathA] = Garbage /\ fs[PathB] = DefaultTable)
        => /\ pl.pc = "returned"
           /\ \A f \in AccFields : Len(pl.acc[f]) = 1

\* C2: once the loop over the directory has ended, read_all_files has made
\* exactly one aggregate write and one aggregate plot and has returned
\* normally, whichever files failed.
C2_BatchCompletes ==
    BatchEnded => /\ pl.pc = "returned"
                  /\ pl.agg_writes = 1
                  /\ pl.agg_plots = 1

\* The file the last constructor call was given.
Constructed == FileAt(fs, ret.arg)

\* A file that loads as a table of `cols` columns (cols # 2), or as an empty
\* one.
NotTwoColumnsOrEmpty(content) ==
    /\ content.kind = "table"
    /\ Rectangular(content.rows)
    /\ \/ content.rows = << >>
       \/ Len(content.rows[1]) \notin {0, 2}

\* C3: the constructor on a path that does not exist raises
\* FileNotFoundError; on a file that loads as a table that has not two
\* columns, or as an empty one, it raises ValueError; and a construction that
\* fails has not assigned the frequency grid, the flux array or either seed.
C3_ConstructorRejects ==
    ret.op = "__init__" =>
        /\ Constructed.kind = "absent" => lc.exc = "FileNotFoundError"
        /\ NotTwoColumnsOrEmpty(Constructed) => lc.exc = "ValueError"
        /\ lc.exc # "none" =>
              /\ lc.attrs \cap {"nu_grid", "spec", "lam", "Tguess", "Tguessx"} = {}
              /\ lc.nu_grid = << >> /\ lc.spec = << >>

\* A three-column table has been rejected with ValueError, nothing assigned.
C3_Witness_ThreeColumnsRejected ==
    /\ ret.op = "__init__"
    /\ Constructed.kind = "table"
    /\ Constructed.rows # << >>
    /\ Len(Constructed.rows[1]) = 3
    /\ lc.exc = "ValueError"
    /\ "nu_grid" \notin lc.attrs

\* A file of one or more rows of two numbers each.
WellFormed(content) ==
    /\ content.kind = "table"
    /\ Len(content.rows) >= 1
    /\ \A i \in 1..Len(content.rows) : Len(content.rows[i]) = 2

\* C4: every well-formed two-column file of one or more rows, one row
\* included, constructs: the grid and the flux array hold one entry per row
\* and the seeds are 1e4 and 1e5.
C4_EveryRowCountConstructs ==
    (ret.op = "__init__" /\ WellFormed(Constructed))
        => /\ lc.exc = "none"
           /\ Len(lc.nu_grid) = Len(Constructed.rows)
           /\ Len(lc.spec) = Len(Constructed.rows)
           /\ lc.Tguess = TguessInit
           /\ lc.Tguessx = TguessxInit

\* The samples of the loader that get_convolved_spectrum keeps for `band`.
Kept(band) ==
    {i \in 1..Len(lc.spec) :
        band[1] <= lc.nu_grid[i] /\ lc.nu_grid[i] <= band[2] /\ lc.spec[i] > FluxFloor}

\* A band the loader has two usable samples or fewer in (which covers the band
\* whose every sample is negligible: none of them is above the flux floor).
Degenerate(band) == Cardinality(Kept(band)) <= 2

\* C5: fit_band on a degenerate band does not raise: it returns temperature 0,
\* scale 0 and a model spectrum of one zero per grid point, and the optimiser
\* has not been called.
C5_DegenerateBandFit ==
    (ret.op = "fit_band" /\ Degenerate(ret.arg[1]))
        => /\ ret.exc = "none"
           /\ ret.val.T = 0
           /\ ret.val.scale = 0
           /\ ret.val.bbspec.type = "ndarray"
           /\ ret.val.bbspec.v = [i \in 1..Len(lc.nu_grid) |-> 0]
           /\ ~ret.val.optimised

\* C6: get_time_from_filename on a loader whose file name holds no epoch
\* number, or whose companion file is missing, does not raise and returns
\* time 0.
C6_DegenerateMetadata ==
    (/\ ret.op = "get_time_from_filename"
     /\ \/ ~re_search_epoch(lc.filename)
        \/ FileAt(fs, companion_file(lc)).kind = "absent")
        => /\ ret.exc = "none"
           /\ ret.val.time = 0

\* C7: _compute_fits gives its eleven results, and among them a luminosity or
\* a radius is nonzero only if the temperature it was derived from is above 0:
\* l_bb and rbb go with Tc, l_bb2, rbb2 and rbbtot with Tbb, l_x and rx with Tx.
C7_ZeroForcing ==
    ret.op = "_compute_fits"
        => /\ ret.exc = "none"
           /\ ret.val.Tc <= 0 => (ret.val.l_bb = 0 /\ ret.val.rbb = 0)
           /\ ret.val.Tbb <= 0
                 => (ret.val.l_bb2 = 0 /\ ret.val.rbb2 = 0 /\ ret.val.rbbtot = 0)
           /\ ret.val.Tx <= 0 => (ret.val.l_x = 0 /\ ret.val.rx = 0)

\* C8: after write_data each of lum.dat and tde-lightcurve.out exists anew and
\* holds its header line and exactly one data row, of 8 and of 14 fields.
C8_OutputFilesRecreated ==
    ret.op = "write_data"
        => /\ \A f \in OutputNames :
                 /\ out[f].kind = "text"
                 /\ out[f].header = 1
                 /\ Len(out[f].rows) = 1
           /\ Len(out["lum.dat"].rows[1]) = 8
           /\ Len(out["tde-lightcurve.out"].rows[1]) = 14

OpticalBand == <<ztfmin_Hz, ztfmax_Hz>>
XrayBand == <<swiftmin_Hz, swiftmax_Hz>>

\* Any call of _compute_fits.
AnyComputeFits ==
    \E Ltot \in {0, 5}, optO \in CurveFitOutcomes, optX \in CurveFitOutcomes :
        ComputeFits(Ltot, optO, optX)

\* C9: every per-epoch computation on a loader runs its two band fits and
\* leaves each seed at the temperature its own band's fit gave if that fit was
\* not degenerate, and at its previous value if it was; so neither seed is
\* ever 0.
C9_SeedsFollowSuccess ==
    [][AnyComputeFits
        => /\ ret'.exc = "none"
           /\ lc'.Tguess = IF Degenerate(OpticalBand) THEN lc.Tguess ELSE ret'.val.Tbb
           /\ lc'.Tguessx = IF Degenerate(XrayBand) THEN lc.Tguessx ELSE ret'.val.Tx
           /\ lc'.Tguess # 0
           /\ lc'.Tguessx # 0]_vars

\* The k-th smallest element of a set of indices.
Kth(S, k) == CHOOSE i \in S : Cardinality({j \in S : j < i}) = k - 1

\* The rows of the file the loader was built from.
LoadedRows == FileAt(fs, lc.filename).rows

\* C10: get_convolved_spectrum(nu_min, nu_max) returns three lists of one
\* length, holding exactly the samples with nu_min <= nu <= nu_max and flux
\* above 1e9, in their original order, each wavelength being c / nu; and the
\* loader's grid and flux array are still what was loaded from the file.
C10_ConvolvedSpectrum ==
    ret.op = "get_convolved_spectrum" =>
        /\ Len(ret.val.mynu) = Cardinality(Kept(ret.arg))
        /\ Len(ret.val.myspec) = Cardinality(Kept(ret.arg))
        /\ Len(ret.val.mylam) = Cardinality(Kept(ret.arg))
        /\ \A k \in 1..Cardinality(Kept(ret.arg)) :
              /\ ret.val.mynu[k] = lc.nu_grid[Kth(Kept(ret.arg), k)]
              /\ ret.val.myspec[k] = lc.spec[Kth(Kept(ret.arg), k)]
              /\ ret.val.mylam[k] * ret.val.mynu[k] <= c
              /\ c < (ret.val.mylam[k] + 1) * ret.val.mynu[k]
        /\ \A k \in 1..Len(ret.val.mynu) :
              /\ ret.arg[1] <= ret.val.mynu[k]
              /\ ret.val.mynu[k] <= ret.arg[2]
              /\ ret.val.myspec[k] > FluxFloor
        /\ Len(lc.nu_grid) = Len(LoadedRows)
        /\ Len(lc.spec) = Len(LoadedRows)
        /\ \A i \in 1..Len(LoadedRows) :
              /\ lc.nu_grid[i] = LoadedRows[i][1]
              /\ lc.spec[i] = IF LoadedRows[i][2] = Inf THEN 0 ELSE LoadedRows[i][2]

\* A call on a two-sample spectrum has kept the second sample only.
C10_Witness_SecondSampleKept ==
    /\ ret.op = "get_convolved_spectrum"
    /\ Len(lc.spec) = 2
    /\ Kept(ret.arg) = {2}
    /\ ret.val.mynu = <<lc.nu_grid[2]>>

\* The simulation file, when it is a light curve of two rows or more under
\* the two lines load_sim_lightcurve skips.
SimCurve == FileAt(fs, SimPath)
SimCurveLoads ==
    /\ SimCurve.kind = "table"
    /\ SimCurve.header = 2
    /\ Len(SimCurve.rows) >= 2

\* The time of the row of the simulation file whose total luminosity (column
\* 1 of the aggregate layout) is the largest.
PeakLuminosityTime ==
    SimCurve.rows[argmax([i \in 1..Len(SimCurve.rows) |-> SimCurve.rows[i][2]])][1]

\* C11: after load_sim_lightcurve on a simulation light curve, t_shift is the
\* time of the row of largest luminosity, or 30 if that time is above 50;
\* every time of array_shifted is the loaded time minus t_shift; and the
\* loaded array holds the rows of the file unchanged.
C11_TimeAnchoredAtPeak ==
    (ret.op = "load_sim_lightcurve" /\ SimCurveLoads)
        => /\ ret.exc = "none"
           /\ ret.val.t_shift = IF PeakLuminosityTime > PeakTimeCap
                                THEN PeakTimeFallback ELSE PeakLuminosityTime
           /\ ret.val.array.flat = Flatten(SimCurve.rows)
           /\ Column(ret.val.array_shifted, 0)
                 = [i \in 1..Len(SimCurve.rows) |-> SimCurve.rows[i][1] - ret.val.t_shift]

\* The rows (counted from 1) the calls of `draws` with the given alpha draw,
\* and how many times row i is drawn in all.
DrawnWith(draws, alpha) ==
    UNION {{draws[j].rows[k] : k \in 1..Len(draws[j].rows)} :
              j \in {j \in 1..Len(draws) : draws[j].alpha = alpha}}
TimesDrawn(draws, i) ==
    Cardinality({<<j, k>> \in (1..Len(draws)) \X (1..Len(SimCurve.rows)) :
                    k <= Len(draws[j].rows) /\ draws[j].rows[k] = i})

\* The rows of the simulation file that are reliable: past the time floor,
\* in time since the peak, with a bad fraction under the threshold.
Reliable(t_shift) ==
    {i \in 1..Len(SimCurve.rows) :
        /\ SimCurve.rows[i][1] - t_shift > TimeFloor
        /\ SimCurve.rows[i][BadFracColumn + 1] < BadFracLimit}

\* C12: _plot_my_curves draws every row of a simulation curve exactly once;
\* without the bad-fraction column no row is drawn with alpha 0.3; with it,
\* the rows drawn with alpha 0.3 are exactly those before the first reliable
\* row, and the others are drawn with alpha 1.
C12_MaskingNeverOmits ==
    (ret.op = "_plot_my_curves" /\ SimCurveLoads)
        => /\ ret.exc = "none"
           /\ \A i \in 1..Len(SimCurve.rows) : TimesDrawn(ret.val.draws, i) = 1
           /\ Len(SimCurve.rows[1]) <= BadFracColumn
                 => DrawnWith(ret.val.draws, 3) = {}
           /\ (Len(SimCurve.rows[1]) > BadFracColumn /\ Reliable(ret.val.t_shift) # {})
                 => DrawnWith(ret.val.draws, 3)
                       = {i \in 1..Len(SimCurve.rows) :
                             \A k \in Reliable(ret.val.t_shift) : i < k}

\* A name whose last five characters are ".spec".
IsSpecName(n) ==
    /\ Len(n) >= 5
    /\ n[Len(n) - 4] = "." /\ n[Len(n) - 3] = "s" /\ n[Len(n) - 2] = "p"
    /\ n[Len(n) - 1] = "e" /\ n[Len(n)] = "c"

\* The files named in the sequence s (of names, or of pairs name, exception)
\* are named in the sequence t, in the same order.
RECURSIVE InOrderWithin(_, _)
InOrderWithin(s, t) ==
    IF s = << >> THEN TRUE
    ELSE IF t = << >> THEN FALSE
    ELSE IF Head(s) = Head(t) THEN InOrderWithin(Tail(s), Tail(t))
    ELSE InOrderWithin(s, Tail(t))

\* Any turn of the loop of read_all_files.
AnyReadAllFilesStep == \E data \in EpochData : ReadAllFilesStep(data)

====
